---- MODULE Spec2Model ----
(***************************************************************************)
(* A model of the A* engine of AStar.hpp (class AStar, its NodeBase and    *)
(* its ResultIterator) and of the demonstration graph of Demo.cpp.         *)
(*                                                                         *)
(* A node object is a natural number (its address); Null is nullptr.  The  *)
(* doubles g, f, distance and heuristic are integers: every cost of the    *)
(* model is integral, so the epsilon test of expand is a test for          *)
(* equality.  The Euclidean heuristic of the demonstration is kept in      *)
(* fixed point (Scale units per tile).                                     *)
(***************************************************************************)
EXTENDS Integers, Sequences, FiniteSets, TLC

NumNodes == 3        \* nodes of a generated graph
MaxDist == 1         \* largest edge cost of a generated graph
MaxH == 1            \* largest heuristic value of a generated graph
MaxTraversals == 2   \* traversals of the result view a caller makes
Scale == 100         \* fixed-point units per tile of the demonstration grid

world_width == 5
world_height == 10

Null == 0
NoEdge == MaxDist + 1

VARIABLES
    ident,        \* node -> what operator== compares (the position)
    available,    \* NodeBase::available
    distance,     \* distance[a][b]: a->distance(b), for b a successor of a
    hval,         \* hval[n]: n->heuristic(*finish)
    successorsOf, \* successorsOf[n]: the collection n->successors(..) returns
    start, finish,
    g, f, prev,   \* NodeBase::g, f, prev
    openList, closedList, success,
    pc,           \* position in the constructor / calculate()
    current,      \* calculate()'s local: the node being expanded
    pending,      \* the successors the for loop of calculate() has yet to visit
    next,         \* ResultIterator::next of the caller's iterator
    yielded,      \* the nodes the running traversal has dereferenced
    iterating,    \* the caller is inside a traversal begin()..end()
    views,        \* the sequences of the completed traversals
    popped,       \* history: the nodes taken from the open list, in order
    hCache,       \* variant engine: NodeBase::h, the cached heuristic
    nodeNext,     \* variant engine: NodeBase::next
    variantClosedList, \* variant engine: closedList, in ascending h
    second,       \* variant engine: what *++closedList.begin() yields
    variantPc     \* variant engine: position of its constructor

input == <<ident, available, distance, hval, successorsOf, start, finish>>
fields == <<g, f, prev>>
engine == <<openList, closedList, success, pc, current, pending, popped>>
view == <<next, yielded, iterating, views>>
variant == <<hCache, nodeNext, variantClosedList, second, variantPc>>
vars == <<input, fields, engine, view, variant>>

Collection == DOMAIN available

(***************************************************************************)
(* Helpers on sequences and sets.                                          *)
(***************************************************************************)
Range(s) == {s[i] : i \in DOMAIN s}

Min(S) == CHOOSE x \in S : \A y \in S : x <= y

InsertAt(s, i, x) == SubSeq(s, 1, i - 1) \o <<x>> \o SubSeq(s, i, Len(s))

RemoveAt(s, i) == SubSeq(s, 1, i - 1) \o SubSeq(s, i + 1, Len(s))

RECURSIVE SortedSeq(_)
SortedSeq(S) ==
    IF S = {} THEN <<>> ELSE LET m == Min(S) IN <<m>> \o SortedSeq(S \ {m})

ISqrt(n) == CHOOSE r \in 0..n : r * r <= n /\ n < (r + 1) * (r + 1)

(***************************************************************************)
(* The inputs.  Every search starts on fresh nodes with distinct           *)
(* positions, at the first node of the collection (any other start is this *)
(* one under a renaming of the nodes), and successors returns the          *)
(* neighbours in collection order.                                         *)
(***************************************************************************)
FreshFields ==
    /\ g = [n \in Collection |-> 0]
    /\ f = [n \in Collection |-> 0]
    /\ prev = [n \in Collection |-> Null]

FreshEngine ==
    /\ openList = <<>>
    /\ closedList = <<>>
    /\ success = FALSE
    /\ pc = "construct"
    /\ current = Null
    /\ pending = <<>>
    /\ popped = <<>>
    /\ next = Null
    /\ yielded = <<>>
    /\ iterating = FALSE
    /\ views = <<>>

\* the variant engine of part_001 before its constructor ran: fresh nodes
\* have h = -1 and no next
FreshVariant ==
    /\ hCache = [n \in Collection |-> -1]
    /\ nodeNext = [n \in Collection |-> Null]
    /\ variantClosedList = <<>>
    /\ second = Null
    /\ variantPc = "idle"

\* the edges of the map m (pair -> cost or NoEdge) as distance[a][b]
EdgesOf(nodes, m) ==
    [a \in nodes |->
        [b \in {c \in nodes : <<a, c>> \in DOMAIN m /\ m[<<a, c>>] # NoEdge} |->
            m[<<a, b>>]]]

Costs == (0..MaxDist) \cup {NoEdge}

(***************************************************************************)
(* Unit graphs: any set of edges of cost 1 between NumNodes available      *)
(* nodes, no heuristic, the finish the start itself or the last node;      *)
(* successors returns every neighbour once, or every neighbour twice.      *)
(***************************************************************************)
Nodes == 1..NumNodes

Pairs == {p \in Nodes \X Nodes : p[1] # p[2]}

InitGraph ==
    /\ ident = [n \in Nodes |-> n]
    /\ available = [n \in Nodes |-> TRUE]
    /\ \E E \in SUBSET Pairs :
          distance = EdgesOf(Nodes, [p \in E |-> 1])
    /\ hval = [n \in Nodes |-> 0]
    /\ \E twice \in BOOLEAN :
          successorsOf = [a \in Nodes |->
              LET once == SortedSeq(DOMAIN distance[a])
              IN  IF twice THEN once \o once ELSE once]
    /\ start = 1
    /\ finish \in {start, NumNodes}

(***************************************************************************)
(* Weighted graphs of three nodes: any edges with costs 0..MaxDist out of  *)
(* the start and between the other two nodes, the edge between the start   *)
(* and the second node in both directions, any blocked nodes, any          *)
(* heuristic 0..MaxH for the two nodes (the heuristic of the start is      *)
(* never asked for), either of them the finish.                            *)
(***************************************************************************)
TriNodes == {1, 2, 3}

TriPairs == {<<1, 2>>, <<1, 3>>, <<2, 3>>, <<3, 2>>}

InitWeighted ==
    /\ ident = [n \in TriNodes |-> n]
    /\ available \in [TriNodes -> BOOLEAN]
    /\ \E m \in [TriPairs -> Costs] :
          distance = EdgesOf(TriNodes,
              [p \in TriPairs \cup {<<2, 1>>} |->
                  IF p = <<2, 1>> THEN m[<<1, 2>>] ELSE m[p]])
    /\ \E h \in [TriNodes \ {1} -> 0..MaxH] :
          hval = [n \in TriNodes |-> IF n = 1 THEN 0 ELSE h[n]]
    /\ successorsOf = [a \in TriNodes |-> SortedSeq(DOMAIN distance[a])]
    /\ start = 1
    /\ finish \in TriNodes \ {1}

(***************************************************************************)
(* Weighted graphs of four available nodes with edges only from a node to  *)
(* a later one, any heuristic for the second node, and the search from the  *)
(* first node to the last.  Here an entry of the open list is moved while  *)
(* others wait.                                                            *)
(***************************************************************************)
DagNodes == {1, 2, 3, 4}

DagPairs == {p \in DagNodes \X DagNodes : p[1] < p[2]}

InitDag ==
    /\ ident = [n \in DagNodes |-> n]
    /\ available = [n \in DagNodes |-> TRUE]
    /\ \E m \in [DagPairs -> Costs] : distance = EdgesOf(DagNodes, m)
    /\ \E h \in 0..MaxH :
          hval = [n \in DagNodes |-> IF n = 2 THEN h ELSE 0]
    /\ successorsOf = [a \in DagNodes |-> SortedSeq(DOMAIN distance[a])]
    /\ start = 1
    /\ finish = 4

(***************************************************************************)
(* A collection that holds two objects at one position: node 3 compares    *)
(* equal to the finish node 2 under operator==.  The start has any edges   *)
(* to the two, successors returns them in either order, and both have the  *)
(* same heuristic.                                                         *)
(***************************************************************************)
AliasNodes == {1, 2, 3}

AliasPairs == {<<1, 2>>, <<1, 3>>}

InitAlias ==
    /\ ident = [n \in AliasNodes |-> IF n = 3 THEN 2 ELSE n]
    /\ available = [n \in AliasNodes |-> TRUE]
    /\ \E m \in [AliasPairs -> Costs] : distance = EdgesOf(AliasNodes, m)
    /\ \E h \in 0..MaxH :
          hval = [n \in AliasNodes |-> IF n = 1 THEN 0 ELSE h]
    /\ \E backwards \in BOOLEAN :
          successorsOf = [a \in AliasNodes |->
              LET up == SortedSeq(DOMAIN distance[a])
              IN  IF backwards THEN [i \in 1..Len(up) |-> up[Len(up) + 1 - i]]
                  ELSE up]
    /\ start = 1
    /\ finish = 2

(***************************************************************************)
(* The demonstration: world1, a world_width x world_height grid of MyNode, *)
(* node i at x = (i-1) % world_width, y = (i-1) \div world_width, and      *)
(* main()'s search from the first to the last node.                        *)
(***************************************************************************)
world1 ==
    << 0, 0, 1, 0, 1,
       1, 0, 1, 0, 0,
       1, 0, 0, 1, 1,
       1, 1, 0, 0, 1,
       0, 0, 0, 0, 0,
       0, 1, 1, 0, 0,
       0, 0, 0, 0, 0,
       0, 0, 0, 0, 1,
       0, 1, 0, 1, 0,
       0, 1, 0, 0, 0 >>

WorldNodes == 1..(world_width * world_height)

XOf(i) == (i - 1) % world_width

YOf(i) == (i - 1) \div world_width

\* MyNode::distance: sqrt(x_dist^2 + y_dist^2), in fixed point
MyNodeDistance(a, b) ==
    LET xd == XOf(a) - XOf(b)
        yd == YOf(a) - YOf(b)
    IN  ISqrt(Scale * Scale * (xd * xd + yd * yd))

\* successors whose western bounds test never passes
MyNodeSuccessorsNoWest(i) ==
    LET x == XOf(i)
        y == YOf(i)
        size == world_height * world_width
        en == x + 1 + world_width * y
        sn == x + world_width * (y + 1)
        nn == x + world_width * (y - 1)
    IN  (IF 0 <= en /\ en < size /\ x # world_width - 1 THEN <<en + 1>> ELSE <<>>)
        \o (IF 0 <= sn /\ sn < size /\ y # world_height - 1 THEN <<sn + 1>> ELSE <<>>)
        \o (IF 0 <= nn /\ nn < size /\ y # 0 THEN <<nn + 1>> ELSE <<>>)

\* MyNode::successors: the eastern, western, southern, northern neighbour
MyNodeSuccessors(i) ==
    LET x == XOf(i)
        y == YOf(i)
        size == world_height * world_width
        en == x + 1 + world_width * y
        wn == x - 1 + world_width * y
        sn == x + world_width * (y + 1)
        nn == x + world_width * (y - 1)
    IN  (IF 0 <= en /\ en < size /\ x # world_width - 1 THEN <<en + 1>> ELSE <<>>)
        \o (IF 0 <= wn /\ wn < size /\ x # 0 THEN <<wn + 1>> ELSE <<>>)
        \o (IF 0 <= sn /\ sn < size /\ y # world_height - 1 THEN <<sn + 1>> ELSE <<>>)
        \o (IF 0 <= nn /\ nn < size /\ y # 0 THEN <<nn + 1>> ELSE <<>>)

InitDemo ==
    /\ ident = [n \in WorldNodes |-> <<XOf(n), YOf(n)>>]
    /\ available = [n \in WorldNodes |-> world1[n] = 0]
    /\ successorsOf = [n \in WorldNodes |-> MyNodeSuccessors(n)]
    /\ distance = [a \in WorldNodes |->
                     [b \in Range(MyNodeSuccessors(a)) |-> MyNodeDistance(a, b)]]
    /\ start = 1
    /\ finish = world_width * world_height
    /\ hval = [n \in WorldNodes |-> MyNodeDistance(n, world_width * world_height)]

IsDemo == DOMAIN world1 = Collection

Init ==
    /\ InitGraph \/ InitWeighted \/ InitDag \/ InitAlias \/ InitDemo
    /\ FreshFields
    /\ FreshEngine
    /\ FreshVariant

(***************************************************************************)
(* The containers.  openList and closedList are std::multiset ordered by   *)
(* NodePointerLess, held as sequences in ascending f.                      *)
(***************************************************************************)
NodePointerEqual(lhs, rhs) == ident[lhs] = ident[rhs]

NodePointerLess(lhs, rhs) == f[lhs] < f[rhs]

\* a lookup that tests the first element only
FindIfFirstOnly(list, node) ==
    IF list # <<>> /\ NodePointerEqual(node, list[1]) THEN 1 ELSE 0

\* a lookup that compares addresses
FindIfByAddress(list, node) ==
    IF \E i \in DOMAIN list : list[i] = node
    THEN Min({i \in DOMAIN list : list[i] = node})
    ELSE 0

\* std::find_if(list.begin(), list.end(), NodePointerEqual(node)); 0 is end()
FindIf(list, node) ==
    IF \E i \in DOMAIN list : NodePointerEqual(node, list[i])
    THEN Min({i \in DOMAIN list : NodePointerEqual(node, list[i])})
    ELSE 0

\* a container that puts a new element anywhere
InsertPositionsAnywhere(list, key, k) == 1..(Len(list) + 1)

\* the places where a multiset ordered by key may put a new element
InsertPositions(list, key, k) ==
    {i \in 1..(Len(list) + 1) :
        /\ \A j \in 1..(i - 1) : ~(k < key[list[j]])
        /\ \A j \in i..Len(list) : ~(key[list[j]] < k)}

\* multiset::insert(value): at the upper bound of the equal range
UpperBound(list, key, k) ==
    CHOOSE i \in InsertPositions(list, key, k) :
        \A j \in InsertPositions(list, key, k) : j <= i

(***************************************************************************)
(* AStar::AStar and AStar::calculate                                       *)
(***************************************************************************)
\* a constructor that scores the start node before it inserts it
ConstructScoringStart ==
    /\ pc = "construct"
    /\ f' = [f EXCEPT ![start] = hval[start] + g[start]]
    /\ openList' = <<start>>
    /\ pc' = "loop"
    /\ UNCHANGED <<input, variant, g, prev, view, closedList, success, current, pending, popped>>

\* the constructor enters calculate(): openList.insert(*start)
Construct ==
    /\ pc = "construct"
    /\ openList' = <<start>>
    /\ pc' = "loop"
    /\ UNCHANGED <<input, variant, fields, view, closedList, success, current, pending, popped>>

\* a goal test that takes the goal off the open list into the closed list
FoundClosing ==
    /\ pc = "loop"
    /\ openList # <<>>
    /\ Head(openList) = finish
    /\ success' = TRUE
    /\ pc' = "found"
    /\ openList' = Tail(openList)
    /\ closedList' = InsertAt(closedList, UpperBound(closedList, f, f[finish]), finish)
    /\ UNCHANGED <<input, variant, fields, view, current, pending, popped>>

\* the open list's first entry is *finish: FOUND
Found ==
    /\ pc = "loop"
    /\ openList # <<>>
    /\ Head(openList) = finish
    /\ success' = TRUE
    /\ pc' = "found"
    /\ UNCHANGED <<input, variant, fields, view, openList, closedList, current, pending, popped>>

\* a loop that does not expand a node whose available flag is false
PopAvailable ==
    /\ pc = "loop"
    /\ openList # <<>>
    /\ Head(openList) # finish
    /\ LET c == Head(openList)
           fetched == IF available[c] THEN successorsOf[c] ELSE <<>>
       IN
        /\ current' = c
        /\ openList' = Tail(openList)
        /\ closedList' = InsertAt(closedList, UpperBound(closedList, f, f[c]), c)
        /\ pending' = fetched
        /\ popped' = Append(popped, c)
        /\ pc' = IF fetched = <<>> THEN "loop" ELSE "expand"
    /\ UNCHANGED <<input, variant, fields, view, success>>

\* the first entry moves to the closed list and its successors are fetched
Pop ==
    /\ pc = "loop"
    /\ openList # <<>>
    /\ Head(openList) # finish
    /\ LET c == Head(openList) IN
        /\ current' = c
        /\ openList' = Tail(openList)
        /\ closedList' = InsertAt(closedList, UpperBound(closedList, f, f[c]), c)
        /\ pending' = successorsOf[c]
        /\ popped' = Append(popped, c)
        /\ pc' = IF successorsOf[c] = <<>> THEN "loop" ELSE "expand"
    /\ UNCHANGED <<input, variant, fields, view, success>>

\* the open list is empty: NOT FOUND
Exhausted ==
    /\ pc = "loop"
    /\ openList = <<>>
    /\ pc' = "exhausted"
    /\ UNCHANGED <<input, variant, fields, view, openList, closedList, success, current, pending, popped>>

(***************************************************************************)
(* AStar::expand(current, successor), one action per path through it       *)
(***************************************************************************)
Successor == Head(pending)

InExpand == pc = "expand" /\ pending # <<>>

\* line 190 without the edge
TentativeNoEdge == g[current]

Tentative == g[current] + distance[current][Successor]

\* the return to calculate()'s for loop
Return ==
    /\ pending' = Tail(pending)
    /\ pc' = IF Tail(pending) = <<>> THEN "loop" ELSE "expand"
    /\ UNCHANGED <<input, variant, view, closedList, success, current, popped>>

\* expand that takes a cheaper path to a node of the closed list as well
ExpandClosedImproving ==
    /\ InExpand
    /\ FindIf(closedList, Successor) # 0
    /\ IF Tentative < g[Successor]
       THEN /\ prev' = [prev EXCEPT ![Successor] = current]
            /\ g' = [g EXCEPT ![Successor] = Tentative]
            /\ f' = [f EXCEPT ![Successor] = hval[Successor] + Tentative]
       ELSE UNCHANGED fields
    /\ Return
    /\ UNCHANGED openList

ExpandClosed ==
    /\ InExpand
    /\ FindIf(closedList, Successor) # 0
    /\ Return
    /\ UNCHANGED <<fields, openList>>

ExpandUnavailable ==
    /\ InExpand
    /\ FindIf(closedList, Successor) = 0
    /\ ~available[Successor]
    /\ Return
    /\ UNCHANGED <<fields, openList>>

\* the comparison of line 193 turned round
NoImprovementReversed(gNew, gOld) == gNew < gOld

\* line 193 without the epsilon clause
NoImprovementStrict(gNew, gOld) == gNew > gOld

\* g > successor->g, or the two differ by less than epsilon
NoImprovement(gNew, gOld) == gNew > gOld \/ gNew = gOld

ExpandNoImprovement ==
    /\ InExpand
    /\ FindIf(closedList, Successor) = 0
    /\ available[Successor]
    /\ FindIf(openList, Successor) # 0
    /\ NoImprovement(Tentative, g[Successor])
    /\ Return
    /\ UNCHANGED <<fields, openList>>

\* an update that keeps the back link a node already has
UpdateKeepingPrev(rest) ==
    LET s == Successor
        fNew == hval[s] + Tentative
    IN  /\ prev' = [prev EXCEPT ![s] = IF prev[s] = Null THEN current ELSE @]
        /\ g' = [g EXCEPT ![s] = Tentative]
        /\ f' = [f EXCEPT ![s] = fNew]
        /\ \E i \in InsertPositions(rest, f, fNew) :
              openList' = InsertAt(rest, i, s)

\* lines 199-203: the update and the insertion into the list `rest`
Update(rest) ==
    LET s == Successor
        fNew == hval[s] + Tentative
    IN  /\ prev' = [prev EXCEPT ![s] = current]
        /\ g' = [g EXCEPT ![s] = Tentative]
        /\ f' = [f EXCEPT ![s] = fNew]
        /\ \E i \in InsertPositions(rest, f, fNew) :
              openList' = InsertAt(rest, i, s)

\* an improvement that rewrites the fields of the entry where it lies
ExpandImproveInPlace ==
    /\ InExpand
    /\ FindIf(closedList, Successor) = 0
    /\ available[Successor]
    /\ FindIf(openList, Successor) # 0
    /\ ~NoImprovement(Tentative, g[Successor])
    /\ prev' = [prev EXCEPT ![Successor] = current]
    /\ g' = [g EXCEPT ![Successor] = Tentative]
    /\ f' = [f EXCEPT ![Successor] = hval[Successor] + Tentative]
    /\ UNCHANGED openList
    /\ Return

ExpandImprove ==
    /\ InExpand
    /\ FindIf(closedList, Successor) = 0
    /\ available[Successor]
    /\ FindIf(openList, Successor) # 0
    /\ ~NoImprovement(Tentative, g[Successor])
    /\ Update(RemoveAt(openList, FindIf(openList, Successor)))
    /\ Return

\* expand with the availability test skipped for the finish node
ExpandNewFinishExempt ==
    /\ InExpand
    /\ FindIf(closedList, Successor) = 0
    /\ available[Successor] \/ Successor = finish
    /\ FindIf(openList, Successor) = 0
    /\ Update(openList)
    /\ Return

\* expand without the closed list test of lines 184-186
ExpandNewReopening ==
    /\ InExpand
    /\ available[Successor]
    /\ FindIf(openList, Successor) = 0
    /\ Update(openList)
    /\ Return

\* expand without the availability test of lines 187-189
ExpandNewIgnoringAvailable ==
    /\ InExpand
    /\ FindIf(closedList, Successor) = 0
    /\ FindIf(openList, Successor) = 0
    /\ Update(openList)
    /\ Return

\* expand with the availability test applied to the node being expanded
ExpandNewAvailableCurrent ==
    /\ InExpand
    /\ FindIf(closedList, Successor) = 0
    /\ available[current]
    /\ FindIf(openList, Successor) = 0
    /\ Update(openList)
    /\ Return

ExpandNew ==
    /\ InExpand
    /\ FindIf(closedList, Successor) = 0
    /\ available[Successor]
    /\ FindIf(openList, Successor) = 0
    /\ Update(openList)
    /\ Return

(***************************************************************************)
(* The queries and the result view, as a caller's range-for loop uses them *)
(***************************************************************************)
Constructed == pc \in {"found", "exhausted"}

successful == success

weight == g[finish]

\* begin() with the two branches exchanged
beginExchanged == IF success THEN Null ELSE finish

\* begin() at the other end of the path
beginAtStart == IF success THEN start ELSE Null

begin == IF success THEN finish ELSE Null

end == Null

\* ResultIterator::operator++
Increment(it) == prev[it]

ViewBegin ==
    /\ Constructed
    /\ ~iterating
    /\ Len(views) < MaxTraversals
    /\ next' = begin
    /\ yielded' = <<>>
    /\ iterating' = TRUE
    /\ UNCHANGED <<input, variant, fields, engine, views>>

\* an iterator that unlinks the node it leaves
ViewStepConsuming ==
    /\ iterating
    /\ next # end
    /\ Len(yielded) <= Cardinality(Collection)
    /\ yielded' = Append(yielded, next)
    /\ next' = Increment(next)
    /\ prev' = [prev EXCEPT ![next] = Null]
    /\ UNCHANGED <<input, variant, g, f, engine, iterating, views>>

\* it != end(): *it, then ++it
ViewStep ==
    /\ iterating
    /\ next # end
    /\ Len(yielded) <= Cardinality(Collection)
    /\ yielded' = Append(yielded, next)
    /\ next' = Increment(next)
    /\ UNCHANGED <<input, variant, fields, engine, iterating, views>>

\* it == end(): the loop is over
ViewEnd ==
    /\ iterating
    /\ next = end
    /\ views' = Append(views, yielded)
    /\ iterating' = FALSE
    /\ UNCHANGED <<input, variant, fields, engine, next, yielded>>

(***************************************************************************)
(* The variant engine of part_001, constructed on the same input.  Its     *)
(* calculate() and expand() are those of AStar.hpp statement by statement  *)
(* but for three things: the first open entry is erased and inserted into  *)
(* the closed list before the goal test, so the goal ends up in the closed *)
(* list; the closed list is ordered by h; and h is computed once, when     *)
(* expand first inserts a node, fresh nodes having h = -1.  On the same    *)
(* input it therefore passes through the same open lists, g, f and prev    *)
(* as the search above, and its closed list receives the nodes popped      *)
(* above in the same order, then the goal.  The constructor then calls     *)
(* backlink on the second entry of the closed list.                        *)
(***************************************************************************)
\* the nodes the variant inserts into its closed list, in order
VariantPopped == popped \o (IF success THEN <<finish>> ELSE <<>>)

\* NodeBase::h after the search: set by expand for the nodes it inserted
VariantH(n) == IF prev[n] = Null THEN -1 ELSE hval[n]

\* lhs->h < rhs->h
NodePointerLessHeuristicDistance(lhs, rhs) == VariantH(lhs) < VariantH(rhs)

\* closedList.insert(current) for the nodes popped, in turn, into a multiset
\* ordered by NodePointerLessHeuristicDistance: an insertion goes behind
\* the entries that are not greater, so the list ends up in ascending h,
\* equal entries in the order of their insertion
VariantClosedList ==
    LET seq == VariantPopped
        ahead(i) == {j \in DOMAIN seq :
                        \/ NodePointerLessHeuristicDistance(seq[j], seq[i])
                        \/ /\ ~NodePointerLessHeuristicDistance(seq[i], seq[j])
                           /\ j < i}
    IN  [p \in 1..Len(seq) |->
            seq[CHOOSE i \in DOMAIN seq : Cardinality(ahead(i)) + 1 = p]]

\* backlink(first, last): for (; first->prev; first = first->prev)
\*     first->prev->next = first
RECURSIVE backlink(_, _, _)
backlink(first, links, k) ==
    IF prev[first] = Null \/ k = 0 THEN links
    ELSE backlink(prev[first], [links EXCEPT ![prev[first]] = first], k - 1)

\* the variant is constructed where the two are compared: after the caller
\* is done with a search above that was successful
VariantReady ==
    /\ pc = "found"
    /\ ~iterating
    /\ Len(views) = MaxTraversals
    /\ variantPc = "idle"

\* the constructor of the variant, its closed list holding two entries or more
VariantConstruct ==
    /\ VariantReady
    /\ Len(VariantPopped) >= 2
    /\ LET list == VariantClosedList IN
        /\ hCache' = [n \in Collection |-> VariantH(n)]
        /\ variantClosedList' = list
        /\ second' = list[2]
        /\ nodeNext' = backlink(list[2], nodeNext, Cardinality(Collection))
        /\ variantPc' = "done"
    /\ UNCHANGED <<input, fields, engine, view>>

\* the constructor of the variant, its closed list holding the start only:
\* ++closedList.begin() is end(), and reading it is undefined.  It yields
\* the address of some node, or the program stops
VariantConstructUndefined ==
    /\ VariantReady
    /\ Len(VariantPopped) < 2
    /\ LET list == VariantClosedList IN
        /\ hCache' = [n \in Collection |-> VariantH(n)]
        /\ variantClosedList' = list
        /\ \/ \E garbage \in Collection :
                 /\ second' = garbage
                 /\ nodeNext' = backlink(garbage, nodeNext, Cardinality(Collection))
                 /\ variantPc' = "done"
           \/ /\ variantPc' = "crashed"
              /\ UNCHANGED <<second, nodeNext>>
    /\ UNCHANGED <<input, fields, engine, view>>

\* successful() of the variant: *++closedList.begin() == *path_end
variantSuccessful == second = finish

\* weight() of the variant: (*++closedList.begin())->g
variantWeight == g[second]

\* the variant's begin()..end(): from *path_begin along next
RECURSIVE VariantSequence(_, _)
VariantSequence(n, k) ==
    IF n = Null \/ k = 0 THEN <<>>
    ELSE <<n>> \o VariantSequence(nodeNext[n], k - 1)

Next ==
    \/ Construct
    \/ Found
    \/ Pop
    \/ Exhausted
    \/ ExpandClosed
    \/ ExpandUnavailable
    \/ ExpandNoImprovement
    \/ ExpandImprove
    \/ ExpandNew
    \/ ViewBegin
    \/ ViewStep
    \/ ViewEnd
    \/ VariantConstruct
    \/ VariantConstructUndefined

Spec == Init /\ [][Next]_vars

\* the constructor and the caller's loop are sequential code: a step that
\* can be taken is taken
FairSpec == Spec /\ WF_vars(Next)

(***************************************************************************)
(* Walks and their costs, for the statements below.                        *)
(***************************************************************************)
\* the collection holds one object per node of the graph: no two objects
\* compare equal under operator==
Distinct == \A a, b \in Collection : NodePointerEqual(a, b) => a = b

\* the nodes a walk may pass through after the start
Enterable == {n \in Collection : available[n]}

\* the cheapest walk costs by settling the nearest reached node in turn
\* (costs are not negative): d maps the nodes reached so far to the
\* cheapest cost found, a walk enters only nodes of `enter` and leaves only
\* the start and available nodes
RECURSIVE Settle(_, _, _)
Settle(d, done, enter) ==
    IF DOMAIN d \subseteq done THEN d
    ELSE
        LET u == CHOOSE x \in DOMAIN d \ done :
                     \A y \in DOMAIN d \ done : d[x] <= d[y]
            targets == IF u = start \/ available[u]
                       THEN {v \in DOMAIN distance[u] \cap enter :
                                v \notin DOMAIN d \/ d[u] + distance[u][v] < d[v]}
                       ELSE {}
            e == [v \in DOMAIN d \cup targets |->
                     IF v \in targets THEN d[u] + distance[u][v] ELSE d[v]]
        IN  Settle(e, done \cup {u}, enter)

\* cheapest cost of a walk from start to each node it can reach
Cheapest(enter) == Settle([v \in {start} |-> 0], {}, enter)

\* h(finish) = 0 and h(a) <= distance(a, b) + h(b) on the edges into `enter`
Consistent(enter) ==
    /\ hval[finish] = 0
    /\ \A a \in Collection : \A b \in DOMAIN distance[a] :
          (a = start \/ available[a]) /\ b \in enter =>
              hval[a] <= distance[a][b] + hval[b]

RECURSIVE SumSeq(_)
SumSeq(s) == IF s = <<>> THEN 0 ELSE Head(s) + SumSeq(Tail(s))

\* the cost of a sequence in goal-to-start order
CostOf(seq) ==
    SumSeq([i \in 1..(Len(seq) - 1) |-> distance[seq[i + 1]][seq[i]]])

(***************************************************************************)
(* C1 (as stated): with non-negative costs and a consistent, admissible    *)
(* heuristic, if a walk from start to finish exists whose intermediate     *)
(* nodes are all available, the finished search is successful and weight() *)
(* is the least cost of such a walk.  The finish itself may be blocked.    *)
(* A graph is a collection with one object per node.                       *)
(***************************************************************************)
C1_OptimalityAsStated ==
    LET enter == Enterable \cup {finish}
        cost == Cheapest(enter)
    IN  Constructed /\ Distinct /\ Consistent(Collection)
            /\ finish \in DOMAIN cost =>
                successful /\ weight = cost[finish]

(***************************************************************************)
(* C1 (amended): with non-negative costs and a consistent, admissible      *)
(* heuristic, if a walk from start to finish exists whose nodes after the  *)
(* start are all available, the finish included, the finished search is    *)
(* successful and weight() is the least cost of such a walk.  A graph is a  *)
(* collection with one object per node.                                    *)
(***************************************************************************)
C1_Optimality ==
    LET cost == Cheapest(Enterable)
    IN  Constructed /\ Distinct /\ Consistent(Enterable)
            /\ finish \in DOMAIN cost =>
                successful /\ weight = cost[finish]

\* a search that ended on a finish whose cost was improved on the way
C1_Witness ==
    /\ pc = "found"
    /\ Distinct
    /\ Consistent(Enterable)
    /\ Len(popped) >= 2
    /\ prev[finish] # start
    /\ finish \in DOMAIN distance[start]
    /\ g[finish] < distance[start][finish]

(***************************************************************************)
(* C2: whenever successful() is true, in every sequence a traversal        *)
(* begin()..end() produced, each node is among the successors of the node  *)
(* yielded after it, and the costs of these edges add up to weight().      *)
(***************************************************************************)
C2_PathValidity ==
    successful =>
        \A k \in DOMAIN views :
            /\ \A i \in 1..(Len(views[k]) - 1) :
                  views[k][i] \in Range(successorsOf[views[k][i + 1]])
            /\ CostOf(views[k]) = weight

C2_Witness ==
    /\ successful
    /\ views # <<>>
    /\ Len(views[1]) = 3
    /\ weight > 0

(***************************************************************************)
(* C3: if no walk leads from start to finish along edges into available    *)
(* nodes (in particular if no edge path exists at all, or the start is     *)
(* walled in by blocked nodes), the search ends with the open list empty,  *)
(* successful() is false and the result sequence is empty.                 *)
(***************************************************************************)
C3_NoPath ==
    Constructed /\ finish \notin DOMAIN Cheapest(Enterable) =>
        /\ pc = "exhausted"
        /\ openList = <<>>
        /\ ~successful
        /\ begin = end
        /\ \A k \in DOMAIN views : views[k] = <<>>

\* the start has edges, all of them into blocked nodes, and the caller has
\* walked the empty result
C3_Witness ==
    /\ pc = "exhausted"
    /\ successorsOf[start] # <<>>
    /\ \A n \in Range(successorsOf[start]) : ~available[n]
    /\ \E n \in Collection : n # start /\ finish \in DOMAIN distance[n]
    /\ views # <<>>

(***************************************************************************)
(* C4 (as stated): a blocked finish that differs from start is reported as *)
(* found when it is a successor of a node the search reached.              *)
(***************************************************************************)
C4_BlockedFinishAsStated ==
    /\ Constructed
    /\ finish # start
    /\ ~available[finish]
    /\ \E n \in Range(popped) : finish \in Range(successorsOf[n])
    => successful

(***************************************************************************)
(* C4 (amended): a blocked finish that differs from start is never put on  *)
(* the open list, so it is never found: expand tests availability before   *)
(* the node can reach the goal test, and the search ends exhausted with    *)
(* successful() false even when the finish is a successor of an expanded   *)
(* node.                                                                   *)
(***************************************************************************)
C4_BlockedFinish ==
    finish # start /\ ~available[finish] =>
        /\ finish \notin Range(openList)
        /\ ~successful
        /\ pc # "found"

C4_Witness ==
    /\ pc = "exhausted"
    /\ finish # start
    /\ ~available[finish]
    /\ \E n \in Range(popped) : finish \in Range(successorsOf[n])

(***************************************************************************)
(* C5: when start and finish are the same node, the search stops at the    *)
(* first goal test without expanding a node, successful() is true,         *)
(* weight() is 0 and the result sequence has exactly one element.          *)
(***************************************************************************)
C5_TrivialPath ==
    start = finish /\ pc # "construct" =>
        /\ pc # "loop" => pc = "found"
        /\ popped = <<>> /\ closedList = <<>>
        /\ Constructed => successful /\ weight = 0
        /\ \A k \in DOMAIN views : views[k] = <<start>>

C5_Witness ==
    /\ start = finish
    /\ successorsOf[start] # <<>>
    /\ Len(views) = 1

(***************************************************************************)
(* C6: on every finite collection the search loop terminates, in Found or  *)
(* in Exhausted, and no node is popped twice (so at most one pop per       *)
(* node), whatever the heuristic.  Checked under FairSpec.                 *)
(***************************************************************************)
C6_Termination ==
    /\ <>Constructed
    /\ [](\A i, j \in DOMAIN popped : popped[i] = popped[j] => i = j)
    /\ [](Len(popped) <= Cardinality(Collection))

\* a finished search under an inadmissible heuristic, on a graph with a
\* cycle, that popped every node but the finish
C6_Witness ==
    /\ Constructed
    /\ hval[finish] # 0
    /\ \E a \in Collection : \E b \in DOMAIN distance[a] : a \in DOMAIN distance[b]
    /\ Len(popped) = Cardinality(Collection) - 1

(***************************************************************************)
(* C7: when successful() is true, the result sequence starts at the finish *)
(* node, each step follows prev, the last node yielded is the start node,  *)
(* which is the only node of the sequence without predecessor, no node is  *)
(* yielded twice and the length is at most the number of nodes.            *)
(***************************************************************************)
C7_ResultView ==
    successful =>
        \A k \in DOMAIN views :
            LET v == views[k] IN
            /\ v # <<>>
            /\ v[1] = finish
            /\ \A i \in 1..(Len(v) - 1) : v[i + 1] = prev[v[i]]
            /\ v[Len(v)] = start
            /\ \A i \in DOMAIN v : prev[v[i]] = Null <=> i = Len(v)
            /\ \A i, j \in DOMAIN v : v[i] = v[j] => i = j
            /\ Len(v) <= Cardinality(Collection)

\* a traversal that visited every node of a generated graph
C7_Witness ==
    /\ successful
    /\ Len(views) = 1
    /\ Len(views[1]) = NumNodes

(***************************************************************************)
(* C8: on the demonstration grid world1 (5 wide, 10 tall, 4-directional    *)
(* adjacency, unit edge cost), the search from (0,0) to (4,9) is           *)
(* successful and weight() is the length of the shortest path through open *)
(* tiles, 15 steps.                                                        *)
(***************************************************************************)
C8_Demo ==
    IsDemo /\ Constructed =>
        /\ successful
        /\ weight = 15 * Scale
        /\ Cheapest(Enterable)[finish] = weight

C8_Witness ==
    /\ IsDemo
    /\ pc = "found"
    /\ Len(popped) >= 15

(***************************************************************************)
(* C9: the search is a function of its input as long as no two open        *)
(* entries share an f: in every state at most one step of the engine is    *)
(* possible, and an insertion into the open list whose f differs from the  *)
(* f of every entry has exactly one outcome.  Two runs on the same input   *)
(* without such ties therefore pass through the same states and end with   *)
(* the same prev links and the same weight().                              *)
(***************************************************************************)
EnabledSteps ==
    {i \in 1..9 :
        CASE i = 1 -> ENABLED Construct
          [] i = 2 -> ENABLED Found
          [] i = 3 -> ENABLED Pop
          [] i = 4 -> ENABLED Exhausted
          [] i = 5 -> ENABLED ExpandClosed
          [] i = 6 -> ENABLED ExpandUnavailable
          [] i = 7 -> ENABLED ExpandNoImprovement
          [] i = 8 -> ENABLED ExpandImprove
          [] i = 9 -> ENABLED ExpandNew}

\* the open list an insertion finds, once a stale entry is erased
OpenRest ==
    IF FindIf(openList, Successor) = 0 THEN openList
    ELSE RemoveAt(openList, FindIf(openList, Successor))

C9_Determinism ==
    /\ Cardinality(EnabledSteps) <= 1
    /\ (ENABLED ExpandImprove \/ ENABLED ExpandNew) =>
          LET fNew == hval[Successor] + Tentative
              outcomes == {InsertAt(OpenRest, i, Successor) :
                              i \in InsertPositions(OpenRest, f, fNew)}
          IN  (\A n \in Range(OpenRest) : f[n] # fNew) =>
                  Cardinality(outcomes) = 1

\* a cheaper path moves an entry of an open list of two, without a tie
C9_Witness ==
    /\ ENABLED ExpandImprove
    /\ Len(openList) = 2
    /\ InsertPositions(OpenRest, f, hval[Successor] + Tentative) = {1}
    /\ \A n \in Range(OpenRest) : f[n] # hval[Successor] + Tentative
    /\ f[openList[1]] # f[openList[2]]

(***************************************************************************)
(* C10: traversing begin()..end() any number of times after the search     *)
(* yields the same sequence each time, and no step taken after the search  *)
(* changes a node field (g, f, prev, available), successful() or weight(). *)
(***************************************************************************)
C10_ViewIdempotent ==
    /\ [](\A i, j \in DOMAIN views : views[i] = views[j])
    /\ [][Constructed =>
            /\ UNCHANGED <<g, f, prev, available>>
            /\ successful' = successful
            /\ weight' = weight]_vars

C10_Witness ==
    /\ successful
    /\ Len(views) = MaxTraversals
    /\ Len(views[1]) >= 2

(***************************************************************************)
(* C11: the available flag of the start node is never consulted: whenever  *)
(* expand gets as far as its availability test, the successor is not the   *)
(* start node, so a blocked start changes no step of the search; and the   *)
(* finished search is successful exactly when a walk leads from the start, *)
(* blocked or not, to the finish through available nodes.                  *)
(***************************************************************************)
C11_BlockedStart ==
    /\ InExpand /\ FindIf(closedList, Successor) = 0 =>
          ~NodePointerEqual(Successor, start)
    /\ Constructed /\ Distinct =>
          (successful <=> finish \in DOMAIN Cheapest(Enterable))

\* a search from a blocked start that went on to find the finish, after an
\* edge back to the start was met
C11_Witness ==
    /\ pc = "found"
    /\ ~available[start]
    /\ finish # start
    /\ Len(popped) >= 2
    /\ \E n \in Range(popped) : start \in Range(successorsOf[n])
    /\ weight > 0

(***************************************************************************)
(* C12: in every run no node (by operator==) is in the closed list twice,  *)
(* no node is popped as current twice, and no node that is in the closed   *)
(* list is inserted into the open list by any later step.                  *)
(***************************************************************************)
C12_NoReexpansion ==
    /\ [](\A i, j \in DOMAIN closedList :
             NodePointerEqual(closedList[i], closedList[j]) => i = j)
    /\ [](\A i, j \in DOMAIN popped :
             NodePointerEqual(popped[i], popped[j]) => i = j)
    /\ [][\A n \in Range(closedList) :
             \A e \in Range(openList') : ~NodePointerEqual(n, e)]_vars

\* a finished search in which a node other than the start was closed and
\* then met again as the successor of a node expanded later
C12_Witness ==
    /\ Constructed
    /\ \E i, j \in DOMAIN popped :
          /\ 1 < i /\ i < j
          /\ popped[i] \in Range(successorsOf[popped[j]])

(***************************************************************************)
(* C13 (as stated): whenever the loop examines a first open entry that is  *)
(* equal to the finish under operator==, the step is Found, also when the  *)
(* entry is another object than the one the finish reference designates:   *)
(* such an entry is never moved to the closed list.                        *)
(***************************************************************************)
C13_GoalTestByIdentity ==
    /\ pc = "loop" /\ openList # <<>> /\ NodePointerEqual(Head(openList), finish) =>
          ENABLED Found /\ ~ENABLED Pop
    /\ \A n \in Range(popped) : ~NodePointerEqual(n, finish)

(***************************************************************************)
(* C14: when expand meets a successor that has an entry in the open list,  *)
(* it changes g, prev, f and the open list only if the tentative cost is   *)
(* strictly smaller than the recorded g, and then it records that cost     *)
(* and the current node; on an equal or larger cost nothing changes.  So   *)
(* the g of an open node never increases and a rediscovery at equal cost   *)
(* never rebinds prev.                                                     *)
(***************************************************************************)
Meets ==
    /\ InExpand
    /\ FindIf(closedList, Successor) = 0
    /\ available[Successor]
    /\ FindIf(openList, Successor) # 0

OpenEntry == openList[FindIf(openList, Successor)]

C14_StrictImprovement ==
    /\ [][Meets /\ ~(Tentative < g[OpenEntry]) =>
            UNCHANGED <<g, f, prev, openList>>]_vars
    /\ [][Meets /\ <<g, f, prev, openList>>' # <<g, f, prev, openList>> =>
            /\ Tentative < g[Successor]
            /\ g'[Successor] = Tentative
            /\ prev'[Successor] = current
            /\ f'[Successor] = hval[Successor] + Tentative]_vars
    /\ [][Meets /\ Successor = OpenEntry /\ Tentative < g[Successor] =>
            g'[Successor] = Tentative /\ prev'[Successor] = current]_vars
    /\ [][\A n \in Range(openList) : g'[n] <= g[n]]_vars

\* the successor expand last handled
Handled == successorsOf[current][Len(successorsOf[current]) - Len(pending)]

\* expand has just met an open node again at exactly its recorded cost,
\* from another node than its prev, and left it as it was
C14_Witness ==
    /\ current # Null
    /\ Len(pending) < Len(successorsOf[current])
    /\ Handled \in Range(openList)
    /\ prev[Handled] # current
    /\ g[current] + distance[current][Handled] = g[Handled]
    /\ g[Handled] > 0

(***************************************************************************)
(* C15: when the search ends in Found, the finish entry is still the first *)
(* entry of the open list, no node equal to the finish is in the closed    *)
(* list, and successors was never called on the finish (it was never       *)
(* popped); successful() is true exactly when the search ended in Found.   *)
(***************************************************************************)
C15_GoalUnexpanded ==
    /\ pc = "found" =>
          /\ openList # <<>> /\ Head(openList) = finish
          /\ FindIf(closedList, finish) = 0
          /\ finish \notin Range(popped)
    /\ successful <=> pc = "found"

\* Found on a finish that has successors of its own, after other nodes
\* were expanded, with other entries still waiting behind it
C15_Witness ==
    /\ pc = "found"
    /\ successorsOf[finish] # <<>>
    /\ Len(popped) >= 2
    /\ Len(openList) >= 2

(***************************************************************************)
(* C16: in every state of a search on fresh nodes, every node with a       *)
(* non-null prev has g = prev.g + distance(prev, node) and                 *)
(* f = g + heuristic(node, finish), and is in the open or the closed list. *)
(***************************************************************************)
C16_FieldConsistency ==
    \A n \in Collection :
        prev[n] # Null =>
            /\ n \in DOMAIN distance[prev[n]]
            /\ g[n] = g[prev[n]] + distance[prev[n]][n]
            /\ f[n] = g[n] + hval[n]
            /\ n \in Range(openList) \cup Range(closedList)

\* a node with a heuristic whose first cost, by the edge from the start,
\* was improved by way of another node
C16_Witness ==
    \E n \in Collection :
        /\ prev[n] # Null /\ prev[n] # start
        /\ n \in DOMAIN distance[start]
        /\ g[n] < distance[start][n]
        /\ hval[n] > 0

(***************************************************************************)
(* C17: at every step of the loop the entry examined, the first of the     *)
(* open list, has an f no greater than the f of any other open entry: the  *)
(* open list is in ascending f in every state, also after entries were     *)
(* erased and inserted again at the position of the erasure.               *)
(***************************************************************************)
C17_MinimumExtraction ==
    /\ pc = "loop" =>
          \A n \in Range(openList) : f[Head(openList)] <= f[n]
    /\ \A i, j \in DOMAIN openList : i < j => f[openList[i]] <= f[openList[j]]

\* the loop is about to examine an entry that an improvement put ahead of
\* another one, which its first cost did not
C17_Witness ==
    /\ pc = "loop"
    /\ Len(openList) >= 2
    /\ LET n == Head(openList) IN
          /\ prev[n] # start
          /\ n \in DOMAIN distance[start]
          /\ g[n] < distance[start][n]
          /\ f[n] < f[openList[2]]
          /\ hval[n] + distance[start][n] >= f[openList[2]]

(***************************************************************************)
(* C18: a node other than the start whose available flag is false is never *)
(* in the open list, never in the closed list, never popped, its g, f and  *)
(* prev are never written (they keep the values of a fresh node), no prev  *)
(* points to it, and it is in no result sequence.                          *)
(***************************************************************************)
C18_BlockedNeverEntered ==
    \A n \in Collection :
        n # start /\ ~available[n] =>
            /\ n \notin Range(openList)
            /\ n \notin Range(closedList)
            /\ n \notin Range(popped)
            /\ g[n] = 0 /\ f[n] = 0 /\ prev[n] = Null
            /\ \A m \in Collection : prev[m] # n
            /\ n \notin Range(yielded)
            /\ \A k \in DOMAIN views : n \notin Range(views[k])

\* a traversed result that went round a blocked node, which was met as a
\* successor and has an edge to the finish
C18_Witness ==
    /\ successful
    /\ views # <<>>
    /\ \E n \in Collection :
          /\ n # start /\ ~available[n]
          /\ \E c \in Range(popped) : n \in Range(successorsOf[c])
          /\ finish \in Range(successorsOf[n])

(***************************************************************************)
(* C19: the engine writes only g, f and prev, and only of the successor    *)
(* that passes the tests of expand and reaches its update; it never writes *)
(* available (nor anything else of the input), never writes a field of the *)
(* start node (prev stays null, g and f stay at their initial values), and *)
(* leaves g, f, prev of the nodes it never discovered as they were: no     *)
(* step resets them.                                                       *)
(***************************************************************************)
Updating ==
    /\ InExpand
    /\ FindIf(closedList, Successor) = 0
    /\ available[Successor]
    /\ FindIf(openList, Successor) = 0 \/ Tentative < g[Successor]

C19_Frame ==
    /\ [][UNCHANGED input]_vars
    /\ [][\A n \in Collection :
             <<g[n], f[n], prev[n]>>' # <<g[n], f[n], prev[n]>> =>
                 Updating /\ n = Successor]_vars
    /\ [](g[start] = 0 /\ f[start] = 0 /\ prev[start] = Null)
    /\ [](\A n \in Collection :
             FindIf(openList, n) = 0 /\ FindIf(closedList, n) = 0 =>
                 g[n] = 0 /\ f[n] = 0 /\ prev[n] = Null)

\* a finished search from a start with a heuristic of its own, which met
\* the start again as a successor and left available nodes undiscovered
C19_Witness ==
    /\ pc = "found"
    /\ hval[start] > 0
    /\ \E c \in Range(popped) : c # start /\ start \in Range(successorsOf[c])
    /\ \E n \in Collection :
          available[n] /\ n \notin Range(openList) \cup Range(closedList)

(***************************************************************************)
(* C20: in every reachable state no node (by operator==) is in both the    *)
(* open and the closed list, and the open list holds at most one entry per *)
(* node; duplicates among the successors one call returns create no        *)
(* duplicate entries.                                                      *)
(***************************************************************************)
C20_FrontierDisjoint ==
    /\ \A a \in Range(openList) : \A b \in Range(closedList) :
          ~NodePointerEqual(a, b)
    /\ \A i, j \in DOMAIN openList :
          NodePointerEqual(openList[i], openList[j]) => i = j

\* expand has just handled the second occurrence of a successor, equal
\* under operator== to an earlier one of the same call, and the node is on
\* the open list
C20_Witness ==
    /\ current # Null
    /\ Len(pending) < Len(successorsOf[current])
    /\ FindIf(openList, Handled) # 0
    /\ \E i \in 1..(Len(successorsOf[current]) - Len(pending) - 1) :
          NodePointerEqual(successorsOf[current][i], Handled)
    /\ Len(openList) >= 2

(***************************************************************************)
(* C21: once a node is in the closed list, no step changes its g, f or     *)
(* prev; the prev of every node is a node of the closed list; so every     *)
(* chain of prev links is free of cycles and ends at the start node.       *)
(***************************************************************************)
\* the node without prev that the links lead to from n in at most k steps,
\* Null if there is none
RECURSIVE ChainEnd(_, _)
ChainEnd(n, k) ==
    IF prev[n] = Null THEN n
    ELSE IF k = 0 THEN Null
    ELSE ChainEnd(prev[n], k - 1)

C21_ClosedFrozen ==
    /\ [][\A n \in Range(closedList) :
             g'[n] = g[n] /\ f'[n] = f[n] /\ prev'[n] = prev[n]]_vars
    /\ [](\A n \in Collection :
             prev[n] # Null => prev[n] \in Range(closedList))
    /\ [](\A n \in Collection :
             prev[n] # Null => ChainEnd(n, Cardinality(Collection)) = start)

\* under a heuristic that is not consistent a node was closed at a cost
\* above its cheapest, and the cheaper path was then met and left alone
C21_Witness ==
    /\ current # Null
    /\ Len(pending) < Len(successorsOf[current])
    /\ Handled \in Range(closedList)
    /\ Handled # start
    /\ g[current] + distance[current][Handled] < g[Handled]

(***************************************************************************)
(* C22 (as stated): on every input on which the search of AStar.hpp is     *)
(* successful, the variant engine of part_001 is constructed, reports      *)
(* successful() true and the same weight(), and its sequence from the      *)
(* start along next is the sequence of AStar.hpp reversed.  Stated here    *)
(* for the inputs whose finish is not the start, where the variant reads   *)
(* no entry its closed list does not have.                                 *)
(***************************************************************************)
Reverse(seq) == [i \in 1..Len(seq) |-> seq[Len(seq) + 1 - i]]

C22_VersionAgreement ==
    successful /\ start # finish /\ variantPc # "idle" =>
        /\ variantPc = "done"
        /\ variantSuccessful
        /\ variantWeight = weight
        /\ VariantSequence(start, Cardinality(Collection)) = Reverse(views[1])

====
